---- MODULE Spec2Model ----
(***************************************************************************)
(* Model of api/server/services/Files/MistralOCR/crud.js: uploadMistralOCR *)
(* and the three provider calls it makes.  Strings are sequences of        *)
(* one-character strings, so trimming, pattern tests, lower-casing and     *)
(* template interpolation are computed, not assumed.                       *)
(***************************************************************************)
EXTENDS Integers, Sequences, FiniteSets, TLC

VARIABLES
    req,               \* params.req: user.id and app.locals.ocr (crud.js 129-135)
    file,              \* params.file: path, originalname, mimetype
    pc,                \* where uploadMistralOCR stands: start, the await it is
                       \* suspended at (lookup, upload, signedUrl, ocr), returned, thrown
    apiKey,            \* let apiKey (143-160)
    baseURL,           \* let baseURL (143-160)
    model,             \* const model (169-172)
    calls,             \* the calls made to loadAuthValues and to the provider, in
                       \* order, each with its arguments and its answer
    fileStream,        \* fs.createReadStream(filePath) (36): unopened, open, closed
    streamPos,         \* chunks of the stream the upload request has consumed
    mistralFile,       \* const mistralFile (162)
    signedUrlResponse, \* const signedUrlResponse (174)
    result,            \* the object returned (212-218)
    error              \* the error thrown (219-222)

vars == <<req, file, pc, apiKey, baseURL, model, calls, fileStream, streamPos,
          mistralFile, signedUrlResponse, result, error>>

----------------------------------------------------------------------------
(* JavaScript values *)

\* the JS value undefined: a one-element sequence holding a token no string has
Undefined == <<"<undefined>">>

\* the JS value null, likewise
Null == <<"<null>">>

\* `${v}` inside a template literal
Interp(v) ==
    IF v = Undefined THEN <<"u","n","d","e","f","i","n","e","d">>
    ELSE IF v = Null THEN <<"n","u","l","l">>
    ELSE v

\* a default parameter (name = d): only undefined takes the default
DefaultParam(v, d) == IF v = Undefined THEN d ELSE v

\* v || d for a string-or-missing v
OrElse(v, d) == IF v = Undefined \/ v = Null \/ v = <<>> THEN d ELSE v

WhiteSpace == {" ", "\t", "\n"}

RECURSIVE TrimStart(_)
TrimStart(s) ==
    IF s # <<>> /\ Head(s) \in WhiteSpace THEN TrimStart(Tail(s)) ELSE s

RECURSIVE TrimEnd(_)
TrimEnd(s) ==
    IF s # <<>> /\ s[Len(s)] \in WhiteSpace
    THEN TrimEnd(SubSeq(s, 1, Len(s) - 1))
    ELSE s

\* String.prototype.trim
Trim(s) == TrimEnd(TrimStart(s))

UpperCase == <<"A","B","C","D","E","F","G","H","I","J","K","L","M",
               "N","O","P","Q","R","S","T","U","V","W","X","Y","Z">>
LowerCase == <<"a","b","c","d","e","f","g","h","i","j","k","l","m",
               "n","o","p","q","r","s","t","u","v","w","x","y","z">>

ToLowerChar(c) ==
    IF \E i \in DOMAIN UpperCase : UpperCase[i] = c
    THEN LowerCase[CHOOSE i \in DOMAIN UpperCase : UpperCase[i] = c]
    ELSE c

\* String.prototype.toLowerCase
ToLowerCase(s) == [i \in DOMAIN s |-> ToLowerChar(s[i])]

\* String.prototype.startsWith
StartsWith(s, p) == Len(s) >= Len(p) /\ SubSeq(s, 1, Len(p)) = p

EndsWith(s, p) ==
    Len(s) >= Len(p) /\ SubSeq(s, Len(s) - Len(p) + 1, Len(s)) = p

Digits == <<"0","1","2","3","4","5","6","7","8","9">>

\* a non-negative integer inside a template literal: its decimal digits
RECURSIVE NumToString(_)
NumToString(n) ==
    IF n < 10 THEN <<Digits[n + 1]>>
    ELSE NumToString(n \div 10) \o <<Digits[(n % 10) + 1]>>

Range(s) == {s[i] : i \in DOMAIN s}

----------------------------------------------------------------------------
(* librechat-data-provider helpers used by crud.js *)

\* envVarRegex = /^\${(.+)}$/ : "${", one or more non-newline characters, "}"
EnvVarRegexTest(s) ==
    /\ Len(s) >= 4
    /\ s[1] = "$" /\ s[2] = "{" /\ s[Len(s)] = "}"
    /\ \A i \in 3..(Len(s) - 1) : s[i] # "\n"

\* extractVariableName: the capture group of the trimmed value, or null
extractVariableName(value) ==
    IF EnvVarRegexTest(Trim(value))
    THEN SubSeq(Trim(value), 3, Len(Trim(value)) - 1)
    ELSE Null

\* extractEnvVariable on a value envVarRegex matched: the variable's value in
\* the process environment, or the trimmed value itself when it is unset
extractEnvVariable(value, envValue) ==
    IF EnvVarRegexTest(Trim(value)) /\ envValue # Undefined /\ envValue # <<>>
    THEN envValue
    ELSE Trim(value)

----------------------------------------------------------------------------
(* Inputs: the deployment's OCR configuration, the uploaded file, the user *)

PlaceholderK == <<"$","{","K","}">>
PlaceholderU == <<"$","{","U","}">>
PlaceholderM == <<"$","{","M","}">>
LiteralKey   == <<"s","k","-","1"," ">>
LiteralURL   == <<"h","t","t","p",":","/","/","h","/","v","1">>
Blank        == <<" ">>

ApiKeyConfigs  == {Undefined, Blank, LiteralKey, PlaceholderK, PlaceholderU}
BaseURLConfigs == {<<>>, Blank, LiteralURL, PlaceholderU}
ModelConfigs   == {Undefined, <<"m">>, PlaceholderM}

OcrConfigs ==
    [apiKey : ApiKeyConfigs, baseURL : BaseURLConfigs, mistralModel : ModelConfigs]

UserIds == {"user-1", "user-2"}

MimeOctet == <<"a","p","p","l","i","c","a","t","i","o","n","/","o","c","t","e","t","-","s","t","r","e","a","m">>
MimePdf   == <<"a","p","p","l","i","c","a","t","i","o","n","/","p","d","f">>
MimeUpper == <<"I","M","A","G","E","/","P","N","G">>
MimeText  == <<"t","e","x","t","/","p","l","a","i","n">>
FilePath  == <<"/","t","m","p","/","u","p","1">>

UploadedFile(name, mime) == [path |-> FilePath, originalname |-> name, mimetype |-> mime]

Files ==
    { UploadedFile(<<"s","c","a","n",".","P","N","G">>, MimeOctet),
      UploadedFile(<<"r","e","p","o","r","t",".","p","d","f">>, MimePdf),
      UploadedFile(<<"p","h","o","t","o">>, MimeUpper),
      UploadedFile(<<"a",".","j","p","e","g">>, Undefined),
      UploadedFile(<<"b",".","J","P","G">>, MimeText),
      UploadedFile(<<"c",".","t","i","f">>, <<>>),
      UploadedFile(<<"d",".","T","i","f","f">>, MimeOctet),
      UploadedFile(<<"e",".","j","p","e">>, MimeOctet),
      UploadedFile(<<"p","n","g">>, MimeText),
      UploadedFile(<<"f",".","p","n","g","x">>, MimePdf),
      UploadedFile(<<"g",".","g","i","f">>, MimeOctet),
      UploadedFile(<<"h",".","b","m","p">>, MimeOctet),
      UploadedFile(<<"i",".","w","e","b","p">>, MimeOctet),
      UploadedFile(Undefined, MimePdf) }

\* number of chunks the read stream delivers before it ends
FileChunks == 2

----------------------------------------------------------------------------
(* The call log: every call uploadMistralOCR makes to a collaborator, with  *)
(* the arguments it passed and the answer it got.                           *)

NoResponse == [pending |-> TRUE]

Call(fn, request) ==
    [fn |-> fn, request |-> request, outcome |-> "pending", response |-> NoResponse]

Answer(log, outcome, response) ==
    [log EXCEPT ![Len(log)].outcome = outcome, ![Len(log)].response = response]

Bearer == <<"B","e","a","r","e","r"," ">>

DefaultBaseURL ==
    <<"h","t","t","p","s",":","/","/","a","p","i",".","m","i","s","t","r","a","l",".","a","i","/","v","1">>

----------------------------------------------------------------------------
(* Credential resolution, uploadMistralOCR lines 134-160 *)

apiKeyConfig(cfg)  == OrElse(cfg.apiKey, <<>>)
baseURLConfig(cfg) == OrElse(cfg.baseURL, <<>>)

isApiKeyEnvVar(cfg)  == EnvVarRegexTest(apiKeyConfig(cfg))
isBaseURLEnvVar(cfg) == EnvVarRegexTest(baseURLConfig(cfg))
isApiKeyEmpty(cfg)   == Trim(apiKeyConfig(cfg)) = <<>>
isBaseURLEmpty(cfg)  == Trim(baseURLConfig(cfg)) = <<>>

\* NeedsLookup with the literal branch lost: the store is always consulted
NeedsLookup_Always(cfg) == TRUE

NeedsLookup(cfg) ==
    isApiKeyEnvVar(cfg) \/ isBaseURLEnvVar(cfg) \/ isApiKeyEmpty(cfg) \/ isBaseURLEmpty(cfg)

OCR_API_KEY == <<"O","C","R","_","A","P","I","_","K","E","Y">>
OCR_BASEURL == <<"O","C","R","_","B","A","S","E","U","R","L">>

apiKeyVarName(cfg) ==
    IF isApiKeyEnvVar(cfg) THEN extractVariableName(apiKeyConfig(cfg)) ELSE OCR_API_KEY

baseURLVarName(cfg) ==
    IF isBaseURLEnvVar(cfg) THEN extractVariableName(baseURLConfig(cfg)) ELSE OCR_BASEURL

\* the argument of loadAuthValues
AuthRequest(r) ==
    [userId     |-> r.user.id,
     authFields |-> <<baseURLVarName(r.ocr), apiKeyVarName(r.ocr)>>,
     optional   |-> {baseURLVarName(r.ocr)}]

\* the value the secret store holds under a name
StoreValue(name) == <<"v","a","l",":">> \o name

\* loadAuthValues throws when a field that is not optional has no value
LoadAuthThrows(request, found) ==
    \E f \in Range(request.authFields) : f \notin found /\ f \notin request.optional

\* loadAuthValues' result: a value per field found, undefined for the others
LoadAuthResult(request, found) ==
    [f \in Range(request.authFields) |-> IF f \in found THEN StoreValue(f) ELSE Undefined]

\* authValues[name]
Lookup(authValues, name) ==
    IF name \in DOMAIN authValues THEN authValues[name] ELSE Undefined

----------------------------------------------------------------------------
(* The three provider calls *)

\* path.basename: what follows the last "/"
RECURSIVE Basename(_)
Basename(p) ==
    IF \E i \in DOMAIN p : p[i] = "/" THEN Basename(Tail(p)) ELSE p

\* uploadDocumentToMistral's request: POST {baseURL}/files, multipart
UploadRequest(filePath, fileName, key, base) ==
    LET fileNameP == DefaultParam(fileName, <<>>)
        baseP     == DefaultParam(base, DefaultBaseURL)
    IN  [method |-> "POST",
         url    |-> Interp(baseP) \o <<"/","f","i","l","e","s">>,
         auth   |-> Bearer \o Interp(key),
         data   |-> [purpose  |-> "ocr",
                     filename |-> OrElse(fileNameP, Basename(filePath)),
                     stream   |-> filePath]]

\* getSignedUrl's default expiry, in hours
DefaultExpiry == 24

\* SignedUrlRequest that does not put the uploaded file's id into the URL
SignedUrlRequest_WrongId(key, fileId, base) ==
    LET baseP == DefaultParam(base, DefaultBaseURL)
    IN  [method |-> "GET",
         url    |-> Interp(baseP) \o <<"/","f","i","l","e","s","/">> \o Interp(Undefined)
                      \o <<"/","u","r","l","?","e","x","p","i","r","y","=">>
                      \o NumToString(DefaultExpiry),
         auth   |-> Bearer \o Interp(key),
         data   |-> [fileId |-> Undefined]]

\* getSignedUrl's request: GET {baseURL}/files/{fileId}/url?expiry={expiry}
SignedUrlRequest(key, fileId, base) ==
    LET baseP == DefaultParam(base, DefaultBaseURL)
    IN  [method |-> "GET",
         url    |-> Interp(baseP) \o <<"/","f","i","l","e","s","/">> \o Interp(fileId)
                      \o <<"/","u","r","l","?","e","x","p","i","r","y","=">>
                      \o NumToString(DefaultExpiry),
         auth   |-> Bearer \o Interp(key),
         data   |-> [fileId |-> fileId]]

MistralOcrLatest ==
    <<"m","i","s","t","r","a","l","-","o","c","r","-","l","a","t","e","s","t">>

\* OCRRequest whose baseURL parameter has no default
OCRRequest_NoDefault(key, url, documentType, modelName, base) ==
    LET documentKey == IF documentType = "image_url" THEN "image_url" ELSE "document_url"
    IN  [method |-> "POST",
         url    |-> Interp(base) \o <<"/","o","c","r">>,
         auth   |-> Bearer \o Interp(key),
         data   |-> [model |-> DefaultParam(modelName, MistralOcrLatest),
                     include_image_base64 |-> FALSE,
                     document |-> [type |-> documentType, key |-> documentKey, url |-> url]]]

\* performOCR's request: POST {baseURL}/ocr, JSON
OCRRequest(key, url, documentType, modelName, base) ==
    LET baseP       == DefaultParam(base, DefaultBaseURL)
        documentKey == IF documentType = "image_url" THEN "image_url" ELSE "document_url"
    IN  [method |-> "POST",
         url    |-> Interp(baseP) \o <<"/","o","c","r">>,
         auth   |-> Bearer \o Interp(key),
         data   |-> [model |-> DefaultParam(modelName, MistralOcrLatest),
                     include_image_base64 |-> FALSE,
                     document |-> [type |-> documentType, key |-> documentKey, url |-> url]]]

----------------------------------------------------------------------------
(* uploadMistralOCR between the calls, lines 169-192 *)

\* the OCR model: the configured one, an environment variable's, or the default
ModelOf(cfg, envValue) ==
    LET modelConfig == OrElse(cfg.mistralModel, <<>>)
    IN  IF EnvVarRegexTest(modelConfig)
        THEN extractEnvVariable(modelConfig, envValue)
        ELSE OrElse(Trim(modelConfig), MistralOcrLatest)

\* x? in a pattern: with and without x
Optional(pre, x, post) == {pre \o post, pre \o x \o post}

\* the alternatives of (png|jpe?g|gif|bmp|webp|tiff?)
ImageExtAlternatives ==
    {<<"p","n","g">>, <<"g","i","f">>, <<"b","m","p">>, <<"w","e","b","p">>}
      \cup Optional(<<"j","p">>, <<"e">>, <<"g">>)
      \cup Optional(<<"t","i","f">>, <<"f">>, <<>>)

\* the pattern without its i flag
ImageExtRegexTest_CaseSensitive(name) ==
    \E ext \in ImageExtAlternatives : EndsWith(name, <<".">> \o ext)

\* /\.(png|jpe?g|gif|bmp|webp|tiff?)$/i .test(name)
ImageExtRegexTest(name) ==
    \E ext \in ImageExtAlternatives : EndsWith(ToLowerCase(name), <<".">> \o ext)

isImage(f) ==
    LET mimetype     == ToLowerCase(OrElse(f.mimetype, <<>>))
        originalname == OrElse(f.originalname, <<>>)
    IN  StartsWith(mimetype, <<"i","m","a","g","e">>) \/ ImageExtRegexTest(originalname)

documentTypeOf(f) == IF isImage(f) THEN "image_url" ELSE "document_url"

----------------------------------------------------------------------------
(* Aggregation of the OCR result, lines 194-218 *)

\* a JS string used as a condition
Truthy(v) == v # Undefined /\ v # Null /\ v # <<>>

\* PushImages that pushes every payload that is present, an empty one too
RECURSIVE PushImages_NoPayloadCheck(_, _, _)
PushImages_NoPayloadCheck(images, pageImages, i) ==
    IF i > Len(pageImages) THEN images
    ELSE LET image == pageImages[i]
         IN  PushImages_NoPayloadCheck(
                 IF "image_base64" \in DOMAIN image
                 THEN Append(images, image.image_base64)
                 ELSE images,
                 pageImages, i + 1)

\* page.images.forEach: push every truthy image_base64, in order
RECURSIVE PushImages(_, _, _)
PushImages(images, pageImages, i) ==
    IF i > Len(pageImages) THEN images
    ELSE LET image == pageImages[i]
         IN  PushImages(
                 IF "image_base64" \in DOMAIN image /\ Truthy(image.image_base64)
                 THEN Append(images, image.image_base64)
                 ELSE images,
                 pageImages, i + 1)

\* PageHeading that numbers the pages from 0
PageHeading_ZeroBased(index) ==
    <<"#"," ","P","A","G","E"," ">> \o NumToString(index) \o <<"\n">>

\* the heading of the page at a 0-based index
PageHeading(index) ==
    <<"#"," ","P","A","G","E"," ">> \o NumToString(index + 1) \o <<"\n">>

\* whether the pages get headings
HasHeadings(pages) == Len(pages) > 1

\* one step of ocrResult.pages.forEach((page, index) => ...)
AggregatePage(acc, pages, index) ==
    LET page == pages[index + 1]
        text == IF HasHeadings(pages) THEN acc.text \o PageHeading(index) ELSE acc.text
    IN  [text   |-> text \o page.markdown \o <<"\n","\n">>,
         images |-> IF "images" \in DOMAIN page /\ Len(page.images) > 0
                    THEN PushImages(acc.images, page.images, 1)
                    ELSE acc.images]

RECURSIVE AggregateFrom(_, _, _)
AggregateFrom(acc, pages, index) ==
    IF index >= Len(pages) THEN acc
    ELSE AggregateFrom(AggregatePage(acc, pages, index), pages, index + 1)

Aggregate(pages) == AggregateFrom([text |-> <<>>, images |-> <<>>], pages, 0)

\* BytesOf without the factor
BytesOf_Unscaled(text) == Len(text)

\* bytes: aggregatedText.length * 4
BytesOf(text) == Len(text) * 4

\* the object uploadMistralOCR returns
ResultOf(f, pages) ==
    LET agg == Aggregate(pages)
    IN  [filename |-> f.originalname,
         bytes    |-> BytesOf(agg.text),
         filepath |-> "mistral_ocr",
         text     |-> agg.text,
         images   |-> agg.images]

----------------------------------------------------------------------------
(* What the collaborators may answer *)

\* a response body that is null
NullData == [null |-> TRUE]

IsNull(d) == "null" \in DOMAIN d

FileIds == {<<"f","1">>, <<"f","2">>}
UploadResponses == {[id |-> i] : i \in FileIds} \cup {NullData}

SignedUrls == {<<"u","1">>, <<"u","2">>}
SignedUrlResponses == {[url |-> u] : u \in SignedUrls} \cup {NullData}

\* values of the environment variable the model placeholder names
ModelEnvValues == {Undefined, <<"m","2">>}

Hello == <<"H","e","l","l","o">>

Image(id, b64) == [id |-> id, image_base64 |-> b64]

\* the pages a result is made of: without an images list, with an empty one,
\* with images that lack a payload or have an empty one, with equal payloads
PageKinds ==
    { [markdown |-> Hello],
      [markdown |-> <<>>, images |-> <<>>],
      [markdown |-> <<"#"," ","T">>,
       images   |-> <<Image("i0", <<"A">>), [id |-> "i1"],
                      Image("i2", <<>>), Image("i3", <<"B">>)>>],
      [markdown |-> <<"x">>,
       images   |-> <<Image("i0", <<"B">>), Image("i1", <<"B">>)>>] }

\* the largest number of pages of an OCR result
MaxPages == 2

PageSeqs == UNION {[1..n -> PageKinds] : n \in 0..MaxPages}

OCRResponses == {[pages |-> ps] : ps \in PageSeqs} \cup {NullData}

\* the errors the collaborators raise
AuthError   == [name |-> "Error", message |-> "No auth value found"]
UploadError == [name |-> "AxiosError", message |-> "upload request failed"]
StreamReadError == [name |-> "Error", message |-> "read stream failed"]
SignedUrlError == [name |-> "AxiosError", message |-> "signed url request failed"]
OCRError    == [name |-> "AxiosError", message |-> "ocr request failed"]
TypeError   == [name |-> "TypeError", message |-> "Cannot read properties of null"]

NoError  == [name |-> "none", message |-> <<>>]
NoResult == [none |-> TRUE]

\* logAxiosError: the message it returns contains the caught error's message
logAxiosError(err, message) == <<message, err.message>>

\* the catch block of uploadMistralOCR, lines 219-222
Caught(err) ==
    [name    |-> "Error",
     message |-> logAxiosError(err, "Error uploading document to Mistral OCR API")]

----------------------------------------------------------------------------
(* The state machine: uploadMistralOCR, one action per await *)

Init ==
    /\ req \in [user : [id : UserIds], ocr : OcrConfigs]
    /\ file \in Files
    /\ pc = "start"
    /\ apiKey = Undefined
    /\ baseURL = Undefined
    /\ model = Undefined
    /\ calls = <<>>
    /\ fileStream = "unopened"
    /\ streamPos = 0
    /\ mistralFile = NoResponse
    /\ signedUrlResponse = NoResponse
    /\ result = NoResult
    /\ error = NoError

\* lines 33-40: open the read stream and post the form
CallUpload(log, key, base) ==
    /\ calls' = Append(log, Call("uploadDocumentToMistral",
                                 UploadRequest(file.path, file.originalname, key, base)))
    /\ fileStream' = "open"
    /\ streamPos' = 0
    /\ pc' = "upload"

\* lines 219-222: the error is wrapped and thrown
Throw(err) ==
    /\ pc' = "thrown"
    /\ error' = Caught(err)

\* lines 157-162: both fields are literal
StartLiteral ==
    /\ pc = "start"
    /\ ~NeedsLookup(req.ocr)
    /\ apiKey' = apiKeyConfig(req.ocr)
    /\ baseURL' = baseURLConfig(req.ocr)
    /\ CallUpload(calls, apiKey', baseURL')
    /\ UNCHANGED <<req, file, model, mistralFile, signedUrlResponse, result, error>>

\* lines 145-153: a placeholder or an empty field, so loadAuthValues is called
StartLookup ==
    /\ pc = "start"
    /\ NeedsLookup(req.ocr)
    /\ calls' = Append(calls, Call("loadAuthValues", AuthRequest(req)))
    /\ pc' = "lookup"
    /\ UNCHANGED <<req, file, apiKey, baseURL, model, fileStream, streamPos,
                   mistralFile, signedUrlResponse, result, error>>

\* lines 155-162: loadAuthValues returned
LoadAuthOk ==
    /\ pc = "lookup"
    /\ \E found \in SUBSET Range(calls[Len(calls)].request.authFields) :
          LET request    == calls[Len(calls)].request
              authValues == LoadAuthResult(request, found)
          IN  /\ ~LoadAuthThrows(request, found)
              /\ apiKey' = Lookup(authValues, apiKeyVarName(req.ocr))
              /\ baseURL' = Lookup(authValues, baseURLVarName(req.ocr))
              /\ CallUpload(Answer(calls, "ok", [found |-> found]), apiKey', baseURL')
    /\ UNCHANGED <<req, file, model, mistralFile, signedUrlResponse, result, error>>

\* loadAuthValues threw
LoadAuthFail ==
    /\ pc = "lookup"
    /\ \E found \in SUBSET Range(calls[Len(calls)].request.authFields) :
          /\ LoadAuthThrows(calls[Len(calls)].request, found)
          /\ calls' = Answer(calls, "error", [found |-> found, error |-> AuthError])
    /\ Throw(AuthError)
    /\ UNCHANGED <<req, file, apiKey, baseURL, model, fileStream, streamPos,
                   mistralFile, signedUrlResponse, result>>

\* the request body consumes the next chunk of the read stream; the stream
\* closes itself when it has delivered its last chunk
ReadChunk ==
    /\ pc = "upload"
    /\ fileStream = "open"
    /\ streamPos < FileChunks
    /\ streamPos' = streamPos + 1
    /\ fileStream' = IF streamPos' = FileChunks THEN "closed" ELSE "open"
    /\ UNCHANGED <<req, file, pc, apiKey, baseURL, model, calls,
                   mistralFile, signedUrlResponse, result, error>>

\* lines 48, 162-178: the upload answered 2xx after the whole body was sent
UploadOk ==
    /\ pc = "upload"
    /\ streamPos = FileChunks
    /\ \E data \in UploadResponses, envValue \in ModelEnvValues :
          /\ mistralFile' = data
          /\ model' = ModelOf(req.ocr, envValue)
          /\ IF IsNull(data)
             THEN /\ calls' = Answer(calls, "ok", data)
                  /\ Throw(TypeError)
             ELSE /\ calls' = Append(Answer(calls, "ok", data),
                                     Call("getSignedUrl",
                                          SignedUrlRequest(apiKey, data.id, baseURL)))
                  /\ pc' = "signedUrl"
                  /\ UNCHANGED error
    /\ UNCHANGED <<req, file, apiKey, baseURL, fileStream, streamPos,
                   signedUrlResponse, result>>

\* UploadFail whose catch logs the error and does not rethrow it: the upload
\* yields undefined and reading its id is what throws
UploadFail_Swallowed ==
    /\ pc = "upload"
    /\ calls' = Answer(calls, "error", [error |-> UploadError])
    /\ Throw(TypeError)
    /\ UNCHANGED <<req, file, apiKey, baseURL, model, fileStream, streamPos,
                   mistralFile, signedUrlResponse, result>>

\* lines 49-52: the upload request failed, at any point of the transfer; the
\* catch logs and rethrows, and nothing touches the read stream
UploadFail ==
    /\ pc = "upload"
    /\ calls' = Answer(calls, "error", [error |-> UploadError])
    /\ Throw(UploadError)
    /\ UNCHANGED <<req, file, apiKey, baseURL, model, fileStream, streamPos,
                   mistralFile, signedUrlResponse, result>>

\* line 36: the read stream itself fails (the file is missing or unreadable);
\* it closes itself and the request is rejected with its error
StreamError ==
    /\ pc = "upload"
    /\ fileStream = "open"
    /\ fileStream' = "closed"
    /\ calls' = Answer(calls, "error", [error |-> StreamReadError])
    /\ Throw(StreamReadError)
    /\ UNCHANGED <<req, file, apiKey, baseURL, model, streamPos,
                   mistralFile, signedUrlResponse, result>>

\* lines 67, 174-192: the signed URL arrived
SignedUrlOk ==
    /\ pc = "signedUrl"
    /\ \E data \in SignedUrlResponses :
          /\ signedUrlResponse' = data
          /\ IF IsNull(data)
             THEN /\ calls' = Answer(calls, "ok", data)
                  /\ Throw(TypeError)
             ELSE /\ calls' = Append(Answer(calls, "ok", data),
                                     Call("performOCR",
                                          OCRRequest(apiKey, data.url, documentTypeOf(file),
                                                     model, baseURL)))
                  /\ pc' = "ocr"
                  /\ UNCHANGED error
    /\ UNCHANGED <<req, file, apiKey, baseURL, model, fileStream, streamPos,
                   mistralFile, result>>

\* lines 68-71: the signed URL request failed
SignedUrlFail ==
    /\ pc = "signedUrl"
    /\ calls' = Answer(calls, "error", [error |-> SignedUrlError])
    /\ Throw(SignedUrlError)
    /\ UNCHANGED <<req, file, apiKey, baseURL, model, fileStream, streamPos,
                   mistralFile, signedUrlResponse, result>>

\* lines 109, 194-218: the OCR result arrived and is aggregated
OCROk ==
    /\ pc = "ocr"
    /\ \E data \in OCRResponses :
          /\ calls' = Answer(calls, "ok", data)
          /\ IF IsNull(data)
             THEN /\ Throw(TypeError)
                  /\ UNCHANGED result
             ELSE /\ result' = ResultOf(file, data.pages)
                  /\ pc' = "returned"
                  /\ UNCHANGED error
    /\ UNCHANGED <<req, file, apiKey, baseURL, model, fileStream, streamPos,
                   mistralFile, signedUrlResponse>>

\* lines 110-113: the OCR request failed
OCRFail ==
    /\ pc = "ocr"
    /\ calls' = Answer(calls, "error", [error |-> OCRError])
    /\ Throw(OCRError)
    /\ UNCHANGED <<req, file, apiKey, baseURL, model, fileStream, streamPos,
                   mistralFile, signedUrlResponse, result>>

Next ==
    \/ StartLiteral
    \/ StartLookup
    \/ LoadAuthOk
    \/ LoadAuthFail
    \/ ReadChunk
    \/ UploadOk
    \/ UploadFail
    \/ StreamError
    \/ SignedUrlOk
    \/ SignedUrlFail
    \/ OCROk
    \/ OCRFail

Spec == Init /\ [][Next]_vars

----------------------------------------------------------------------------
(* Properties *)

HttpFns == {"uploadDocumentToMistral", "getSignedUrl", "performOCR"}

\* the provider requests made so far, in order
HttpCalls == SelectSeq(calls, LAMBDA c : c.fn \in HttpFns)

Finished == pc \in {"returned", "thrown"}

WrapperMessage == "Error uploading document to Mistral OCR API"

\* C1: when a stage fails (the credential lookup, the upload, the signed-URL
\* fetch or the OCR request), the failed call is the last call ever made, the
\* ingestion has thrown the one wrapping error whose message carries the
\* cause's message, and nothing is returned; after a failed upload neither
\* getSignedUrl nor performOCR appears among the calls.
C1_FailureThrowsWrappedError ==
    /\ \A i \in DOMAIN calls :
          calls[i].outcome = "error" =>
             /\ i = Len(calls)
             /\ pc = "thrown"
             /\ result = NoResult
             /\ error.name = "Error"
             /\ error.message = <<WrapperMessage, calls[i].response.error.message>>
    /\ \A i \in DOMAIN calls :
          (calls[i].fn = "uploadDocumentToMistral" /\ calls[i].outcome = "error") =>
             \A j \in DOMAIN calls : calls[j].fn \notin {"getSignedUrl", "performOCR"}
    /\ pc = "thrown" => result = NoResult /\ error.name = "Error"
    /\ pc # "thrown" => error = NoError

\* C1 witness: the upload failed and the ingestion has thrown
C1_Witness ==
    /\ pc = "thrown"
    /\ calls[Len(calls)].fn = "uploadDocumentToMistral"
    /\ calls[Len(calls)].outcome = "error"
    /\ calls[Len(calls)].response.error = UploadError

FilesPath == <<"/","f","i","l","e","s">>
OcrPath   == <<"/","o","c","r">>

SignedUrlPath(id) ==
    <<"/","f","i","l","e","s","/">> \o id \o <<"/","u","r","l","?","e","x","p","i","r","y","=","2","4">>

\* C2: the provider requests are a prefix of POST /files, GET /files/{id}/url,
\* POST /ocr; each is made once, after its predecessor answered successfully,
\* with the predecessor's output (the uploaded file's id, the signed URL); a
\* result exists only when all three have succeeded.
C2_SequentialCalls ==
    LET h == HttpCalls
    IN  /\ Len(h) <= 3
        /\ Len(h) >= 1 =>
              /\ h[1].fn = "uploadDocumentToMistral"
              /\ h[1].request.method = "POST"
              /\ EndsWith(h[1].request.url, FilesPath)
        /\ Len(h) >= 2 =>
              /\ h[2].fn = "getSignedUrl"
              /\ h[2].request.method = "GET"
              /\ h[1].outcome = "ok"
              /\ h[1].response.id \in FileIds
              /\ h[2].request.data.fileId = h[1].response.id
              /\ EndsWith(h[2].request.url, SignedUrlPath(h[1].response.id))
        /\ Len(h) >= 3 =>
              /\ h[3].fn = "performOCR"
              /\ h[3].request.method = "POST"
              /\ EndsWith(h[3].request.url, OcrPath)
              /\ h[2].outcome = "ok"
              /\ h[2].response.url \in SignedUrls
              /\ h[3].request.data.document.url = h[2].response.url
        /\ \A i \in 1..(Len(calls) - 1) : calls[i].outcome = "ok"
        /\ (pc = "returned" \/ result # NoResult) =>
              /\ pc = "returned"
              /\ result # NoResult
              /\ Len(h) = 3
              /\ \A i \in 1..3 : h[i].outcome = "ok"

\* C2 witness: a result was returned after the three requests, the second id
\* and the second URL having been handed from one to the next
C2_Witness ==
    /\ pc = "returned"
    /\ Len(HttpCalls) = 3
    /\ HttpCalls[2].request.data.fileId = <<"f","2">>
    /\ HttpCalls[3].request.data.document.url = <<"u","2">>

\* a configured value that is a non-empty literal
IsLiteral(v) ==
    /\ v # Undefined
    /\ ~EnvVarRegexTest(v)
    /\ Trim(v) # <<>>

\* C3: with apiKey and baseURL both non-empty literals, loadAuthValues is
\* never called and every provider request carries the configured apiKey as
\* bearer token and starts with the configured baseURL, both unchanged.
C3_LiteralsUsedDirectly ==
    (IsLiteral(req.ocr.apiKey) /\ IsLiteral(req.ocr.baseURL)) =>
        /\ \A i \in DOMAIN calls : calls[i].fn # "loadAuthValues"
        /\ pc # "start" => Len(HttpCalls) >= 1
        /\ \A i \in DOMAIN HttpCalls :
              /\ HttpCalls[i].request.auth = Bearer \o req.ocr.apiKey
              /\ StartsWith(HttpCalls[i].request.url, req.ocr.baseURL \o <<"/">>)

\* C3 witness: a literal configuration went through all three requests
C3_Witness ==
    /\ IsLiteral(req.ocr.apiKey) /\ IsLiteral(req.ocr.baseURL)
    /\ pc = "returned"
    /\ Len(HttpCalls) = 3

\* a configured value that is a placeholder reference
IsPlaceholder(v) == v # Undefined /\ EnvVarRegexTest(v)

\* a configured value that is missing or blank
IsEmptyValue(v) == v = Undefined \/ Trim(v) = <<>>

\* the name a field is looked up under
ExpectedName(v, fallback) ==
    IF IsPlaceholder(v) THEN SubSeq(v, 3, Len(v) - 1) ELSE fallback

\* C4: when apiKey or baseURL is a placeholder or empty, there is exactly one
\* loadAuthValues call, for the requesting user, with exactly two names (per
\* field the placeholder's variable, else OCR_API_KEY / OCR_BASEURL) of which
\* only the base-URL name is optional; every request's bearer token is the
\* value stored under the API-key name, and when the store lacks that name
\* the ingestion throws before any upload.
C4_LookupRequiresApiKey ==
    ( /\ pc # "start"
      /\ \/ IsPlaceholder(req.ocr.apiKey) \/ IsPlaceholder(req.ocr.baseURL)
         \/ IsEmptyValue(req.ocr.apiKey) \/ IsEmptyValue(req.ocr.baseURL) ) =>
        LET keyName == ExpectedName(req.ocr.apiKey, OCR_API_KEY)
            urlName == ExpectedName(req.ocr.baseURL, OCR_BASEURL)
            lookup  == calls[1]
        IN  /\ lookup.fn = "loadAuthValues"
            /\ \A i \in 2..Len(calls) : calls[i].fn # "loadAuthValues"
            /\ lookup.request.userId = req.user.id
            /\ Len(lookup.request.authFields) = 2
            /\ Range(lookup.request.authFields) = {keyName, urlName}
            /\ Cardinality(Range(lookup.request.authFields)) = 2
            /\ lookup.request.optional = {urlName}
            /\ keyName \notin lookup.request.optional
            /\ \A i \in DOMAIN HttpCalls :
                  HttpCalls[i].request.auth = Bearer \o StoreValue(keyName)
            /\ (lookup.outcome # "pending" /\ keyName \notin lookup.response.found) =>
                  /\ pc = "thrown"
                  /\ Len(calls) = 1

\* the pages of the OCR result that was aggregated
ReturnedPages == calls[Len(calls)].response.pages

DigitOf == <<"1","2","3","4","5","6","7","8","9">>

ExpectedHeading(k) == <<"#"," ","P","A","G","E"," ", DigitOf[k], "\n">>

\* what page k contributes to the text
ExpectedSegment(pages, k) ==
    (IF Len(pages) > 1 THEN ExpectedHeading(k) ELSE <<>>)
        \o pages[k].markdown \o <<"\n","\n">>

\* the number of characters before page k's contribution
RECURSIVE SegmentStart(_, _)
SegmentStart(pages, k) ==
    IF k = 1 THEN 0
    ELSE SegmentStart(pages, k - 1) + Len(ExpectedSegment(pages, k - 1))

\* the number of places where a page heading starts
HeadingCount(text) ==
    Cardinality({i \in 1..Len(text) :
                    StartsWith(SubSeq(text, i, Len(text)), <<"#"," ","P","A","G","E"," ">>)})

\* C5: the text is, page after page in input order, the page's markdown
\* followed by "\n\n", preceded by "# PAGE k\n" (k from 1) exactly when there
\* is more than one page: N headings for N > 1, none for N = 1, "Hello\n\n"
\* for the single page "Hello", and the empty text for no page.
C5_AggregatedText ==
    pc = "returned" =>
        LET pages == ReturnedPages
            N     == Len(pages)
            text  == result.text
        IN  /\ Len(text) = SegmentStart(pages, N + 1)
            /\ \A k \in 1..N :
                  SubSeq(text, SegmentStart(pages, k) + 1, SegmentStart(pages, k + 1))
                      = ExpectedSegment(pages, k)
            /\ HeadingCount(text) = IF N > 1 THEN N ELSE 0
            /\ N = 0 => text = <<>>
            /\ (N = 1 /\ pages[1].markdown = Hello) =>
                  text = <<"H","e","l","l","o","\n","\n">>

\* C5 witness: two pages with different markdown were aggregated
C5_Witness ==
    /\ pc = "returned"
    /\ Len(ReturnedPages) = 2
    /\ ReturnedPages[1].markdown = <<"x">>
    /\ ReturnedPages[2].markdown = Hello
    /\ result.text = <<"#"," ","P","A","G","E"," ","1","\n","x","\n","\n",
                       "#"," ","P","A","G","E"," ","2","\n",
                       "H","e","l","l","o","\n","\n">>

KnownImageExts ==
    { <<".","p","n","g">>, <<".","j","p","g">>, <<".","j","p","e","g">>,
      <<".","g","i","f">>, <<".","b","m","p">>, <<".","w","e","b","p">>,
      <<".","t","i","f","f">>, <<".","t","i","f">> }

ExpectedImage(f) ==
    \/ f.mimetype # Undefined /\ StartsWith(ToLowerCase(f.mimetype), <<"i","m","a","g","e">>)
    \/ /\ f.originalname # Undefined
       /\ \E e \in KnownImageExts : EndsWith(ToLowerCase(f.originalname), e)

\* C6: the file is an image iff its lower-cased MIME type starts with "image"
\* or its name ends, in any case, in .png .jpg .jpeg .gif .bmp .webp .tiff
\* .tif; the OCR request's document is then {type: image_url, image_url: url},
\* and otherwise {type: document_url, document_url: url}; scan.PNG with
\* application/octet-stream is an image, report.pdf with application/pdf is not.
C6_MediaKind ==
    \A i \in DOMAIN calls :
        calls[i].fn = "performOCR" =>
            LET doc == calls[i].request.data.document
                url == calls[i - 1].response.url
            IN  /\ doc = IF ExpectedImage(file)
                         THEN [type |-> "image_url", key |-> "image_url", url |-> url]
                         ELSE [type |-> "document_url", key |-> "document_url", url |-> url]
                /\ (file.originalname = <<"s","c","a","n",".","P","N","G">>
                      /\ file.mimetype = MimeOctet) => doc.type = "image_url"
                /\ (file.originalname = <<"r","e","p","o","r","t",".","p","d","f">>
                      /\ file.mimetype = MimePdf) => doc.type = "document_url"

\* C6 witness: scan.PNG, sent as application/octet-stream, reached the OCR request
C6_Witness ==
    /\ file.originalname = <<"s","c","a","n",".","P","N","G">>
    /\ file.mimetype = MimeOctet
    /\ Len(calls) >= 1
    /\ calls[Len(calls)].fn = "performOCR"
    /\ calls[Len(calls)].request.data.document.type = "image_url"

ImagesOf(page) == IF "images" \in DOMAIN page THEN page.images ELSE <<>>

HasPayload(image) == "image_base64" \in DOMAIN image /\ image.image_base64 # <<>>

\* the (page, image) positions that hold a payload
PayloadPositions(pages) ==
    UNION { { <<p, i>> : i \in {j \in 1..Len(ImagesOf(pages[p])) :
                                   HasPayload(ImagesOf(pages[p])[j])} } :
            p \in 1..Len(pages) }

Before(a, b) == a[1] < b[1] \/ (a[1] = b[1] /\ a[2] < b[2])

\* C7: the images are exactly the payloads of the page images that have a
\* non-empty one, by page and then by place in the page, nothing added,
\* reordered or merged; a page without images contributes nothing.
C7_ImagesInOrder ==
    pc = "returned" =>
        LET pages == ReturnedPages
            pos   == PayloadPositions(pages)
        IN  /\ Len(result.images) = Cardinality(pos)
            /\ \A a \in pos :
                  result.images[Cardinality({b \in pos : Before(b, a)}) + 1]
                      = pages[a[1]].images[a[2]].image_base64

\* C7 witness: a page with equal payloads, then a page with missing and empty ones
C7_Witness ==
    /\ pc = "returned"
    /\ Len(ReturnedPages) = 2
    /\ result.images = << <<"B">>, <<"B">>, <<"A">>, <<"B">> >>

\* C8: bytes is 4 times the length of the text: 0 for the empty text, 28 for
\* "Hello\n\n".
C8_BytesFourTimesLength ==
    pc = "returned" =>
        /\ result.bytes = 4 * Len(result.text)
        /\ result.text = <<>> => result.bytes = 0
        /\ result.text = <<"H","e","l","l","o","\n","\n">> => result.bytes = 28

\* C8 witness: the text "Hello\n\n" was returned
C8_Witness ==
    /\ pc = "returned"
    /\ result.text = <<"H","e","l","l","o","\n","\n">>
    /\ result.bytes = 28

PublicEndpoint ==
    <<"h","t","t","p","s",":","/","/","a","p","i",".","m","i","s","t","r","a","l",".","a","i","/","v","1">>

\* the path of the i-th provider request
PathOf(i) ==
    IF i = 1 THEN FilesPath
    ELSE IF i = 2 THEN SignedUrlPath(HttpCalls[1].response.id)
    ELSE OcrPath

\* C9 as claimed: with an empty configured baseURL, every provider request
\* goes to https://api.mistral.ai/v1.
C9_AlwaysPublicEndpoint ==
    OrElse(req.ocr.baseURL, <<>>) = <<>> =>
        \A i \in DOMAIN HttpCalls :
            HttpCalls[i].request.url = PublicEndpoint \o PathOf(i)

\* C9 amended: with an empty configured baseURL, the three provider requests
\* all go to the value the secret store holds under OCR_BASEURL and, when it
\* holds none, to https://api.mistral.ai/v1.
C9_StoredOrPublicEndpoint ==
    (IsEmptyValue(req.ocr.baseURL) /\ pc # "start") =>
        /\ calls[1].fn = "loadAuthValues"
        /\ \A i \in DOMAIN HttpCalls :
              HttpCalls[i].request.url =
                  (IF OCR_BASEURL \in calls[1].response.found
                   THEN <<"v","a","l",":">> \o OCR_BASEURL
                   ELSE PublicEndpoint) \o PathOf(i)

\* C9 witness: empty baseURL, nothing stored under OCR_BASEURL, three requests made
C9_Witness ==
    /\ IsEmptyValue(req.ocr.baseURL)
    /\ pc = "returned"
    /\ OCR_BASEURL \notin calls[1].response.found
    /\ \A i \in 1..3 : StartsWith(HttpCalls[i].request.url, PublicEndpoint)

\* C10: no ingestion ends with the upload's read stream still open.
C10_StreamReleased ==
    Finished => fileStream # "open"

====
